---- MODULE Spec2Model ----
(***************************************************************************)
(* Model of the AI receptionist backend (src/assistantbackend.py): the     *)
(* appointments, orders and messages tables, the appointment plugin        *)
(* (parse, duration, business hours gate, conflict check, alternative      *)
(* search, insert, notification), the cancellation, order, FAQ and message *)
(* plugins, the plugin manager and the after-hours handler, as reached     *)
(* through the /webhook/vapi endpoint.                                     *)
(*                                                                         *)
(* Three specifications share the state: Spec serves scheduling and        *)
(* cancellation requests one at a time at an instant at which the          *)
(* businesses are open, ConcSpec serves bookings on two worker threads,    *)
(* and WebSpec serves every intent at any hour of the week.                *)
(*                                                                         *)
(* A datetime is the number of minutes since 2026-01-01T00:00.  Strings    *)
(* that the code parses are records of their layout and numeric fields, so *)
(* that strptime is a real (partial) conversion.  The ISO strings stored   *)
(* in the table are tuples <<year, month, day, hour, minute>> compared     *)
(* lexicographically, as SQLite compares the TEXT values.                  *)
(***************************************************************************)
EXTENDS Integers, Sequences, FiniteSets, TLC

VARIABLES
    appointments,   \* rows of the appointments table
    seq,            \* sqlite_sequence of the AUTOINCREMENT key
    before,         \* the appointments table when the last request arrived
    req,            \* the last request received by the webhook
    res,            \* the JSON result returned for it
    calls,          \* the methods the handler called for it, in order
    env,            \* what the store and the console did while serving it
    now,            \* datetime.now() while serving it
    orders,         \* rows of the orders table
    messages,       \* rows of the messages table
    prior,          \* seq and the orders and messages tables when it arrived
    pc,             \* per worker thread: position inside AppointmentPlugin.process
    treq,           \* per worker thread: the request it is serving
    tres,           \* per worker thread: the result it returned
    trow            \* per worker thread: the key its cancellation SELECT fetched

web == <<now, orders, messages>>

vars == <<appointments, seq, before, prior, req, res, calls, env, pc, treq, tres, trow, web>>

(***************************************************************************)
(* Bounds of the model                                                     *)
(***************************************************************************)
MaxSeq == 2         \* at most this many rows are ever inserted
MaxRows == 1        \* at most this many orders, and this many messages

None == "None"

(***************************************************************************)
(* Calendar: datetime, date, time, timedelta                               *)
(***************************************************************************)
\* the calendar year of the model; 2026-01-01 is a Thursday (weekday 3)
Calendar == [year |-> 2026, jan1 |-> 3]
Year == Calendar.year
MinutesPerDay == 1440
MinutesPerHour == 60

DaysInMonth == <<31, 28, 31, 30, 31, 30, 31, 31, 30, 31, 30, 31>>

\* the days of the year before the first of each month
DaysBeforeMonth[m \in 1..12] == IF m = 1 THEN 0 ELSE DaysBeforeMonth[m - 1] + DaysInMonth[m - 1]
DaysBefore(m) == DaysBeforeMonth[m]

\* datetime.combine(date(Year, m, d), time(0, 0)) // one day
Ordinal0(m, d) == DaysBefore(m) + d - 1

Combine(day0, tod) == day0 * MinutesPerDay + tod
\* datetime(Year, m, d, h, mi)
At(m, d, h, mi) == Combine(Ordinal0(m, d), h * MinutesPerHour + mi)
DateOf(t) == t \div MinutesPerDay
TimeOf(t) == t % MinutesPerDay

MonthOf(day0) == CHOOSE m \in 1..12 :
    DaysBefore(m) <= day0 /\ day0 < DaysBefore(m) + DaysInMonth[m]
DayOfMonth(day0) == day0 - DaysBefore(MonthOf(day0)) + 1

\* date.weekday(): Monday is 0
Weekday(day0) == (day0 + Calendar.jan1) % 7

days == <<"monday", "tuesday", "wednesday", "thursday", "friday", "saturday", "sunday">>

\* strftime('%A').lower()
DayName(day0) == days[Weekday(day0) + 1]

\* datetime.isoformat(): fixed-width fields, compared field by field
IsoFormat(t) ==
    <<Year, MonthOf(DateOf(t)), DayOfMonth(DateOf(t)),
      TimeOf(t) \div MinutesPerHour, TimeOf(t) % MinutesPerHour>>

\* datetime.fromisoformat()
FromIso(s) == Combine(Ordinal0(s[2], s[3]), s[4] * MinutesPerHour + s[5])

RECURSIVE LexLess(_, _)
LexLess(a, b) ==
    IF a = <<>> \/ b = <<>> THEN a = <<>> /\ b # <<>>
    ELSE IF Head(a) # Head(b) THEN Head(a) < Head(b)
    ELSE LexLess(Tail(a), Tail(b))

LexLeq(a, b) == a = b \/ LexLess(a, b)

(***************************************************************************)
(* strptime                                                                *)
(***************************************************************************)
Fail == [ok |-> FALSE, value |-> 0]
Ok(v) == [ok |-> TRUE, value |-> v]

DateStr(layout, f1, f2, f3) == [layout |-> layout, f1 |-> f1, f2 |-> f2, f3 |-> f3]
TimeStr(layout, h, mi, ap) == [layout |-> layout, h |-> h, mi |-> mi, ap |-> ap]
NoneStr == [layout |-> None]

IsYear(n) == n >= 1000 /\ n <= 9999
IsDate(m, d) == m \in 1..12 /\ d >= 1 /\ d <= DaysInMonth[m]

\* the date of a year other than Year is outside the calendar of the model
DateOk(y, m, d) == IF IsYear(y) /\ y = Year /\ IsDate(m, d) THEN Ok(Ordinal0(m, d)) ELSE Fail

\* datetime.strptime(s, fmt).date() for the five date formats
StrpDate(s, fmt) ==
    CASE fmt = "%Y-%m-%d"  -> IF s.layout = "N-N-N" THEN DateOk(s.f1, s.f2, s.f3) ELSE Fail
      [] fmt = "%m/%d/%Y"  -> IF s.layout = "N/N/N" THEN DateOk(s.f3, s.f1, s.f2) ELSE Fail
      [] fmt = "%m-%d-%Y"  -> IF s.layout = "N-N-N" THEN DateOk(s.f3, s.f1, s.f2) ELSE Fail
      [] fmt = "%B %d, %Y" -> IF s.layout = "B N, N" THEN DateOk(s.f3, s.f1, s.f2) ELSE Fail
      [] fmt = "%b %d, %Y" -> IF s.layout = "b N, N" THEN DateOk(s.f3, s.f1, s.f2) ELSE Fail

Hour12(h, ap) == (h % 12) + (IF ap = "PM" THEN 12 ELSE 0)

\* datetime.strptime(s, fmt).time() for the five time formats
StrpTime(s, fmt) ==
    CASE fmt = "%H:%M" ->
            IF s.layout = "N:N" /\ s.h \in 0..23 /\ s.mi \in 0..59
            THEN Ok(s.h * MinutesPerHour + s.mi) ELSE Fail
      [] fmt = "%I:%M %p" ->
            IF s.layout = "N:N P" /\ s.h \in 1..12 /\ s.mi \in 0..59
            THEN Ok(Hour12(s.h, s.ap) * MinutesPerHour + s.mi) ELSE Fail
      [] fmt = "%I:%M%p" ->
            IF s.layout = "N:NP" /\ s.h \in 1..12 /\ s.mi \in 0..59
            THEN Ok(Hour12(s.h, s.ap) * MinutesPerHour + s.mi) ELSE Fail
      [] fmt = "%I %p" ->
            IF s.layout = "N P" /\ s.h \in 1..12
            THEN Ok(Hour12(s.h, s.ap) * MinutesPerHour) ELSE Fail
      [] fmt = "%I%p" ->
            IF s.layout = "NP" /\ s.h \in 1..12
            THEN Ok(Hour12(s.h, s.ap) * MinutesPerHour) ELSE Fail

date_formats == <<"%Y-%m-%d", "%m/%d/%Y", "%m-%d-%Y", "%B %d, %Y", "%b %d, %Y">>
time_formats == <<"%H:%M", "%I:%M %p", "%I:%M%p", "%I %p", "%I%p">>

\* the first format of the list that parses the string
RECURSIVE FirstDate(_, _)
FirstDate(s, i) ==
    IF i > Len(date_formats) THEN Fail
    ELSE IF StrpDate(s, date_formats[i]).ok THEN StrpDate(s, date_formats[i])
    ELSE FirstDate(s, i + 1)

RECURSIVE FirstTime(_, _)
FirstTime(s, i) ==
    IF i > Len(time_formats) THEN Fail
    ELSE IF StrpTime(s, time_formats[i]).ok THEN StrpTime(s, time_formats[i])
    ELSE FirstTime(s, i + 1)

\* the parser without the check that a time format matched
ParseDatetimeAnyTime(date_str, time_str) ==
    IF date_str.layout = None THEN Fail
    ELSE IF ~FirstDate(date_str, 1).ok THEN Fail
    ELSE IF time_str.layout = None THEN Fail
    ELSE Ok(Combine(FirstDate(date_str, 1).value, FirstTime(time_str, 1).value))

\* AppointmentPlugin._parse_datetime: ok = FALSE when it raises (a ValueError
\* when no format matches, an AttributeError from .strip() of None)
ParseDatetime(date_str, time_str) ==
    IF date_str.layout = None THEN Fail
    ELSE IF ~FirstDate(date_str, 1).ok THEN Fail
    ELSE IF time_str.layout = None THEN Fail
    ELSE IF ~FirstTime(time_str, 1).ok THEN Fail
    ELSE Ok(Combine(FirstDate(date_str, 1).value, FirstTime(time_str, 1).value))

(***************************************************************************)
(* Configuration: config/<business_id>.json                                *)
(***************************************************************************)
\* an hours string, as str.split('-') cuts it; "closed" and a missing key
\* are told apart by lit
Hours(open, close) == [lit |-> "", parts |-> <<open, close>>]
Closed == [lit |-> "closed", parts |-> <<>>]
NoHours == [lit |-> None, parts |-> <<>>]

HM(h, mi) == TimeStr("N:N", h, mi, "")

Businesses == {"b1", "b2"}

\* the business ids for which config/<business_id>.json exists
ConfigFiles == Businesses \cup {"b3", "b4"}

\* business_hours and features.appointments.appointment_types of each file
BusinessConfig(business_id) ==
    IF business_id = "b1" THEN
        [business_hours |->
            [d \in {days[i] : i \in 1..7} |->
                CASE d = "monday"    -> Hours(HM(9, 0), HM(11, 0))
                  [] d = "tuesday"   -> Closed
                  [] d = "wednesday" -> Hours(HM(9, 0), HM(10, 0))
                  [] d = "thursday"  -> NoHours
                  [] d = "friday"    -> Hours(TimeStr("N P", 9, 0, "AM"), TimeStr("N P", 5, 0, "PM"))
                  [] d = "saturday"  -> Hours(HM(10, 0), HM(10, 30))
                  [] d = "sunday"    -> Closed],
         appointment_types |->
            <<[name |-> "Cleaning", duration |-> 30],
              [name |-> "Exam", duration |-> 60]>>,
         business_name |-> "Bright Dental",
         enabled_features |-> <<"faq", "appointments", "cancellations", "messages">>,
         faq |-> <<[keywords |-> <<"hours", "open">>, answer |-> "We are open on weekdays."],
                   [keywords |-> <<"parking">>, answer |-> "Parking is free."]>>]
    ELSE IF business_id = "b2" THEN
        [business_hours |->
            [d \in {days[i] : i \in 1..7} |->
                CASE d = "monday" -> Hours(HM(9, 0), HM(9, 30))
                  [] OTHER        -> Closed],
         appointment_types |-> <<>>,
         business_name |-> None,
         enabled_features |-> <<"cancellations", "orders", "reservations">>,
         faq |-> <<>>]
    ELSE IF business_id = "b3" THEN
        \* a business that is closed all week
        [business_hours |-> [d \in {days[i] : i \in 1..7} |-> Closed],
         appointment_types |-> <<>>,
         business_name |-> "Closed Corner",
         enabled_features |-> <<"messages", "orders", "faq">>,
         faq |-> <<>>]
    ELSE
        \* open days that follow each other, and hours strings with one
        \* part ("9:00") or with parts that are no %H:%M times
        [business_hours |->
            [d \in {days[i] : i \in 1..7} |->
                CASE d = "monday"    -> Hours(HM(9, 0), HM(10, 0))
                  [] d = "tuesday"   -> [lit |-> "", parts |-> <<HM(9, 0)>>]
                  [] d = "wednesday" -> NoHours
                  [] d = "thursday"  -> Hours(HM(9, 0), HM(9, 30))
                  [] d = "friday"    -> Hours(HM(9, 0), HM(9, 30))
                  [] d = "saturday"  -> Hours(TimeStr("N P", 9, 0, "AM"), TimeStr("N P", 5, 0, "PM"))
                  [] d = "sunday"    -> Closed],
         appointment_types |-> <<>>,
         business_name |-> "Four Seasons",
         enabled_features |-> <<"orders", "appointments", "reservations">>,
         faq |-> <<>>]

\* str.lower() on the service names of the model
Lower(s) ==
    CASE s = "Cleaning" -> "cleaning"
      [] s = "Exam"     -> "exam"
      [] s = "EXAM"     -> "exam"
      [] s = "What are your HOURS?" -> "what are your hours?"
      [] OTHER          -> s

DefaultDuration == 30

\* AppointmentPlugin._get_service_duration: ok = FALSE when service.lower()
\* raises AttributeError, which happens in the first iteration of the loop.
\* Every entry of the catalogs of the model has its name and duration keys.
RECURSIVE TypeDuration(_, _, _)
TypeDuration(types, service, i) ==
    IF i > Len(types) THEN DefaultDuration
    ELSE IF Lower(types[i].name) = Lower(service) THEN types[i].duration
    ELSE TypeDuration(types, service, i + 1)

GetServiceDuration(config, service) ==
    IF config.appointment_types # <<>> /\ service = None THEN Fail
    ELSE Ok(TypeDuration(config.appointment_types, service, 1))

\* the try block shared by the hours gate and the alternative search:
\* split('-') into exactly two parts, each parsed with '%H:%M'
ParseHours(hours) ==
    IF Len(hours.parts) = 2
       /\ StrpTime(hours.parts[1], "%H:%M").ok
       /\ StrpTime(hours.parts[2], "%H:%M").ok
    THEN [ok |-> TRUE, open |-> StrpTime(hours.parts[1], "%H:%M").value,
          close |-> StrpTime(hours.parts[2], "%H:%M").value]
    ELSE [ok |-> FALSE, open |-> 0, close |-> 0]

NotOpen(hours) == hours.lit = None \/ hours.lit = "closed"

\* the gate failing open on a closed day
IsWithinBusinessHoursClosedOpen(config, appointment_datetime) ==
    LET hours == config.business_hours[DayName(DateOf(appointment_datetime))]
        p == ParseHours(hours)
    IN  IF NotOpen(hours) \/ ~p.ok THEN TRUE
        ELSE p.open <= TimeOf(appointment_datetime) /\ TimeOf(appointment_datetime) <= p.close

\* the gate with the closing time excluded
IsWithinBusinessHoursBeforeClose(config, appointment_datetime) ==
    LET hours == config.business_hours[DayName(DateOf(appointment_datetime))]
        p == ParseHours(hours)
    IN  IF NotOpen(hours) THEN FALSE
        ELSE IF ~p.ok THEN TRUE
        ELSE p.open <= TimeOf(appointment_datetime) /\ TimeOf(appointment_datetime) < p.close

\* AppointmentPlugin._is_within_business_hours
IsWithinBusinessHours(config, appointment_datetime) ==
    LET hours == config.business_hours[DayName(DateOf(appointment_datetime))]
        p == ParseHours(hours)
    IN  IF NotOpen(hours) THEN FALSE
        ELSE IF ~p.ok THEN TRUE
        ELSE p.open <= TimeOf(appointment_datetime) /\ TimeOf(appointment_datetime) <= p.close

(***************************************************************************)
(* The appointments table                                                  *)
(***************************************************************************)
\* the WHERE clause reduced to its containment test
ConflictsContainedOnly(rows, start_time, duration, business_id) ==
    LET s == IsoFormat(start_time)
        e == IsoFormat(start_time + duration)
    IN  {a \in rows :
            /\ a.business_id = business_id
            /\ a.status = "confirmed"
            /\ LexLeq(s, a.start_time) /\ LexLeq(a.end_time, e)}

\* the WHERE clause without its first test
ConflictsNoFirstTest(rows, start_time, duration, business_id) ==
    LET s == IsoFormat(start_time)
        e == IsoFormat(start_time + duration)
    IN  {a \in rows :
            /\ a.business_id = business_id
            /\ a.status = "confirmed"
            /\ \/ LexLess(a.start_time, e) /\ LexLess(e, a.end_time)
               \/ LexLeq(s, a.start_time) /\ LexLeq(a.end_time, e)}

\* the WHERE clause with closed intervals: <= for < in its first test
ConflictsClosedIntervals(rows, start_time, duration, business_id) ==
    LET s == IsoFormat(start_time)
        e == IsoFormat(start_time + duration)
    IN  {a \in rows :
            /\ a.business_id = business_id
            /\ a.status = "confirmed"
            /\ \/ LexLeq(a.start_time, e) /\ LexLeq(s, a.end_time)
               \/ LexLess(a.start_time, e) /\ LexLess(e, a.end_time)
               \/ LexLeq(s, a.start_time) /\ LexLeq(a.end_time, e)}

\* the WHERE clause without its business_id test
ConflictsAnyBusiness(rows, start_time, duration, business_id) ==
    LET s == IsoFormat(start_time)
        e == IsoFormat(start_time + duration)
    IN  {a \in rows :
            /\ a.status = "confirmed"
            /\ \/ LexLess(a.start_time, e) /\ LexLess(s, a.end_time)
               \/ LexLess(a.start_time, e) /\ LexLess(e, a.end_time)
               \/ LexLeq(s, a.start_time) /\ LexLeq(a.end_time, e)}

\* the WHERE clause of the SELECT of _check_availability, on ISO strings
Conflicts(rows, start_time, duration, business_id) ==
    LET s == IsoFormat(start_time)
        e == IsoFormat(start_time + duration)
    IN  {a \in rows :
            /\ a.business_id = business_id
            /\ a.status = "confirmed"
            /\ \/ LexLess(a.start_time, e) /\ LexLess(s, a.end_time)
               \/ LexLess(a.start_time, e) /\ LexLess(e, a.end_time)
               \/ LexLeq(s, a.start_time) /\ LexLeq(a.end_time, e)}

\* AppointmentPlugin._check_availability: is_available
CheckAvailability(rows, start_time, duration, business_id) ==
    Conflicts(rows, start_time, duration, business_id) = {}

SlotStep == 30
ScanDays == 7
MaxAlternatives == 5

\* the while loop collecting every slot of the grid, available or not
RECURSIVE WalkDayUnchecked(_, _, _, _, _, _)
WalkDayUnchecked(rows, current_time, end_of_day, duration, business_id, alternatives) ==
    IF current_time + duration <= end_of_day THEN
        LET more == Append(alternatives, [datetime |-> IsoFormat(current_time)])
        IN  IF Len(more) >= 5
            THEN [alternatives |-> more, full |-> TRUE]
            ELSE WalkDayUnchecked(rows, current_time + 30, end_of_day, duration,
                                  business_id, more)
    ELSE [alternatives |-> alternatives, full |-> FALSE]

\* the while loop of _find_alternative_times over one day; full = the
\* early return with MaxAlternatives collected
RECURSIVE WalkDay(_, _, _, _, _, _)
WalkDay(rows, current_time, end_of_day, duration, business_id, alternatives) ==
    IF current_time + duration <= end_of_day THEN
        IF CheckAvailability(rows, current_time, duration, business_id) THEN
            LET more == Append(alternatives, [datetime |-> IsoFormat(current_time)])
            IN  IF Len(more) >= MaxAlternatives
                THEN [alternatives |-> more, full |-> TRUE]
                ELSE WalkDay(rows, current_time + SlotStep, end_of_day, duration,
                             business_id, more)
        ELSE WalkDay(rows, current_time + SlotStep, end_of_day, duration,
                     business_id, alternatives)
    ELSE [alternatives |-> alternatives, full |-> FALSE]

\* the for loop over day_offset
RECURSIVE ScanFrom(_, _, _, _, _, _, _)
ScanFrom(config, rows, check_date, day_offset, duration, business_id, alternatives) ==
    IF day_offset >= ScanDays THEN alternatives
    ELSE
        LET current_date == check_date + day_offset
            hours == config.business_hours[DayName(current_date)]
            p == ParseHours(hours)
            w == WalkDay(rows, Combine(current_date, p.open), Combine(current_date, p.close),
                         duration, business_id, alternatives)
        IN  IF NotOpen(hours) \/ ~p.ok
            THEN ScanFrom(config, rows, check_date, day_offset + 1, duration,
                          business_id, alternatives)
            ELSE IF w.full THEN w.alternatives
            ELSE ScanFrom(config, rows, check_date, day_offset + 1, duration,
                          business_id, w.alternatives)

\* a search that starts on the day after the requested date
FindAlternativeTimesFromTomorrow(config, rows, requested, duration, business_id) ==
    ScanFrom(config, rows, DateOf(requested), 1, duration, business_id, <<>>)

\* AppointmentPlugin._find_alternative_times
FindAlternativeTimes(config, rows, requested, duration, business_id) ==
    ScanFrom(config, rows, DateOf(requested), 0, duration, business_id, <<>>)

\* the row that _book_appointment inserts; the key is the next value of the
\* AUTOINCREMENT sequence, status takes the column default
NewRow(id, data, start_time, duration) ==
    [id |-> id,
     business_id |-> data.business_id,
     customer_name |-> data.customer_name,
     phone |-> data.phone,
     email |-> data.email,
     start_time |-> IsoFormat(start_time),
     end_time |-> IsoFormat(start_time + duration),
     service |-> data.service,
     notes |-> data.notes,
     status |-> "confirmed"]

(***************************************************************************)
(* Results                                                                 *)
(***************************************************************************)
\* a JSON result; keys is the set of keys the object carries
Reply(success, message) ==
    [status |-> 200, success |-> success, message |-> message,
     keys |-> {"success", "message"},
     alternatives |-> <<>>, action |-> "", appointment_id |-> 0, error |-> ""]

\* the except branch of vapi_webhook: HTTP 500 with str(e)
ServerError(e) ==
    [status |-> 500, success |-> FALSE, message |-> "",
     keys |-> {"success", "error"},
     alternatives |-> <<>>, action |-> "", appointment_id |-> 0, error |-> e]

NoResult == Reply(FALSE, "")
NoRequest == [intent |-> None]

\* the conflict branch of AppointmentPlugin.process
ConflictReply(alternatives) ==
    [Reply(FALSE, IF alternatives # <<>> THEN "booked_alternatives" ELSE "booked_callback")
        EXCEPT !.keys = {"success", "message", "alternatives", "action"},
               !.alternatives = alternatives,
               !.action = "suggest_alternatives"]

\* the success branch of AppointmentPlugin.process
BookedReply(id) ==
    [Reply(TRUE, "scheduled") EXCEPT
        !.keys = {"success", "message", "appointment_id"},
        !.appointment_id = id]

(***************************************************************************)
(* AppointmentPlugin.process, one request at a time                        *)
(***************************************************************************)
\* What the environment does while a request is served: store tells whether
\* the INSERT and commit of _book_appointment complete (sqlite3 raises
\* otherwise), notify whether the print of _notify_business completes.
NoFaults == [store |-> TRUE, notify |-> TRUE]
StoreFails == [store |-> FALSE, notify |-> TRUE]
NotifyFails == [store |-> TRUE, notify |-> FALSE]
Faults == {StoreFails, NotifyFails}

\* _book_appointment: the only value it returns has success True
BookAppointment(rows, sq, data, start_time, duration) ==
    [success |-> TRUE, appointment_id |-> sq + 1,
     rows |-> rows \cup {NewRow(sq + 1, data, start_time, duration)},
     seq |-> sq + 1]

\* the branch of process taken when _book_appointment reports no success
TroubleReply == Reply(FALSE, "trouble_booking")

\* the result, the table and sequence it leaves behind, and the methods
\* called on the way
Process(data, rows, sq, e) ==
    LET config == BusinessConfig(data.business_id)
        parsed == ParseDatetime(data.date, data.time)
        duration == GetServiceDuration(config, data.service)
        start == parsed.value
        same(r, c) == [res |-> r, rows |-> rows, seq |-> sq, calls |-> c]
        result == BookAppointment(rows, sq, data, start, duration.value)
    IN  IF ~parsed.ok THEN
            same(Reply(FALSE, "reprompt"), <<"_parse_datetime">>)
        ELSE IF ~duration.ok THEN
            same(ServerError("AttributeError"),
                 <<"_parse_datetime", "_get_service_duration">>)
        ELSE IF ~IsWithinBusinessHours(config, start) THEN
            same(Reply(FALSE, "not_open"),
                 <<"_parse_datetime", "_get_service_duration",
                   "_is_within_business_hours", "_get_business_hours_text">>)
        ELSE IF ~CheckAvailability(rows, start, duration.value, data.business_id) THEN
            same(ConflictReply(FindAlternativeTimes(config, rows, start,
                                    duration.value, data.business_id)),
                 <<"_parse_datetime", "_get_service_duration",
                   "_is_within_business_hours", "_check_availability",
                   "_find_alternative_times">>)
        ELSE IF ~e.store THEN
            \* sqlite3 raises inside _book_appointment: nothing is committed,
            \* and nothing between the INSERT and vapi_webhook catches it
            same(ServerError("sqlite3.OperationalError"),
                 <<"_parse_datetime", "_get_service_duration",
                   "_is_within_business_hours", "_check_availability",
                   "_book_appointment">>)
        ELSE IF ~result.success THEN
            same(TroubleReply,
                 <<"_parse_datetime", "_get_service_duration",
                   "_is_within_business_hours", "_check_availability",
                   "_book_appointment">>)
        ELSE [res |-> IF e.notify THEN BookedReply(result.appointment_id)
                      ELSE ServerError("OSError"),
              rows |-> result.rows,
              seq |-> result.seq,
              calls |-> <<"_parse_datetime", "_get_service_duration",
                          "_is_within_business_hours", "_check_availability",
                          "_book_appointment", "_notify_business">>]

(***************************************************************************)
(* CancellationPlugin.process                                              *)
(***************************************************************************)
\* not all([...]): None and '' are both falsy
Falsy(v) == v = None \/ v = ""

\* a lookup by customer name alone
MatchesNameOnly(rows, name, phone) ==
    {a \in rows : a.customer_name # None /\ a.customer_name = name}

\* WHERE customer_name = ? AND phone = ?  (a NULL column equals nothing)
Matches(rows, name, phone) ==
    {a \in rows : /\ a.customer_name # None /\ a.customer_name = name
                  /\ a.phone # None /\ a.phone = phone}

\* cursor.fetchone(): the first row in key order
FirstRow(rows) == CHOOSE a \in rows : \A b \in rows : a.id <= b.id

\* a cancellation that deletes every matching row
CancellationAll(data, rows) ==
    IF Falsy(data.customer_name) \/ Falsy(data.phone)
    THEN [res |-> Reply(FALSE, "missing_details"), rows |-> rows, calls |-> <<>>]
    ELSE IF Matches(rows, data.customer_name, data.phone) = {}
    THEN [res |-> Reply(FALSE, "not_found"), rows |-> rows, calls |-> <<"SELECT">>]
    ELSE [res |-> Reply(TRUE, "canceled"),
          rows |-> rows \ Matches(rows, data.customer_name, data.phone),
          calls |-> <<"SELECT", "DELETE">>]

\* a cancellation that asks for only one of the two fields
CancellationAnyField(data, rows) ==
    IF Falsy(data.customer_name) /\ Falsy(data.phone)
    THEN [res |-> Reply(FALSE, "missing_details"), rows |-> rows, calls |-> <<>>]
    ELSE IF Matches(rows, data.customer_name, data.phone) = {}
    THEN [res |-> Reply(FALSE, "not_found"), rows |-> rows, calls |-> <<"SELECT">>]
    ELSE [res |-> Reply(TRUE, "canceled"),
          rows |-> rows \ {FirstRow(Matches(rows, data.customer_name, data.phone))},
          calls |-> <<"SELECT", "DELETE">>]

\* a cancellation that looks only at the rows of the calling business
CancellationScoped(data, rows) ==
    LET own == {a \in rows : a.business_id = data.business_id}
    IN  IF Falsy(data.customer_name) \/ Falsy(data.phone)
        THEN [res |-> Reply(FALSE, "missing_details"), rows |-> rows, calls |-> <<>>]
        ELSE IF Matches(own, data.customer_name, data.phone) = {}
        THEN [res |-> Reply(FALSE, "not_found"), rows |-> rows, calls |-> <<"SELECT">>]
        ELSE [res |-> Reply(TRUE, "canceled"),
              rows |-> rows \ {FirstRow(Matches(own, data.customer_name, data.phone))},
              calls |-> <<"SELECT", "DELETE">>]

\* a cancellation that reports success and leaves the row in place
CancellationNoDelete(data, rows) ==
    IF Falsy(data.customer_name) \/ Falsy(data.phone)
    THEN [res |-> Reply(FALSE, "missing_details"), rows |-> rows, calls |-> <<>>]
    ELSE IF Matches(rows, data.customer_name, data.phone) = {}
    THEN [res |-> Reply(FALSE, "not_found"), rows |-> rows, calls |-> <<"SELECT">>]
    ELSE [res |-> Reply(TRUE, "canceled"), rows |-> rows,
          calls |-> <<"SELECT", "DELETE">>]

\* the result, the table it leaves behind and the statements it executed
Cancellation(data, rows) ==
    IF Falsy(data.customer_name) \/ Falsy(data.phone)
    THEN [res |-> Reply(FALSE, "missing_details"), rows |-> rows, calls |-> <<>>]
    ELSE IF Matches(rows, data.customer_name, data.phone) = {}
    THEN [res |-> Reply(FALSE, "not_found"), rows |-> rows, calls |-> <<"SELECT">>]
    ELSE [res |-> Reply(TRUE, "canceled"),
          rows |-> rows \ {FirstRow(Matches(rows, data.customer_name, data.phone))},
          calls |-> <<"SELECT", "DELETE">>]

(***************************************************************************)
(* Requests                                                                *)
(***************************************************************************)
Booking(business_id, name, phone, date, time, service) ==
    [intent |-> "book_appointment", business_id |-> business_id,
     customer_name |-> name, phone |-> phone, email |-> "",
     date |-> date, time |-> time, service |-> service, notes |-> ""]

Monday == DateStr("N-N-N", 2026, 11, 2)
Tuesday == DateStr("N/N/N", 11, 3, 2026)
Friday == DateStr("N-N-N", 2026, 11, 6)

\* date strings of every layout, and strings no format accepts
DateStrings ==
    {Monday, Tuesday,
     DateStr("N-N-N", 11, 2, 2026), DateStr("B N, N", 11, 2, 2026),
     DateStr("b N, N", 11, 2, 2026),
     DateStr("N-N-N", 2026, 11, 31), DateStr("N/N/N", 13, 2, 2026),
     DateStr("N-N-N", 2, 11, 26), DateStr("other", 0, 0, 0), NoneStr}

\* time strings of every layout, and strings no format accepts
TimeStrings ==
    {HM(8, 0), HM(9, 0), HM(9, 30), HM(9, 45), HM(11, 0), HM(11, 30),
     TimeStr("N:N P", 9, 30, "AM"), TimeStr("N:NP", 10, 0, "AM"),
     TimeStr("N P", 11, 0, "AM"), TimeStr("NP", 1, 0, "PM"),
     HM(24, 0), TimeStr("N:N P", 14, 30, "PM"), TimeStr("other", 0, 0, ""), NoneStr}

\* the times of day at which the scheduling requests start
SlotTimes == {HM(8, 0), HM(9, 0), HM(9, 30), HM(9, 45), HM(11, 0), HM(11, 30)}

BookRequests ==
    \* requests that differ in day, time and service
    {Booking("b1", "Ann", "555", Monday, t, "cleaning") : t \in SlotTimes}
    \cup {Booking("b1", "Ann", "555", Monday, t, "EXAM") : t \in {HM(9, 0), HM(10, 30)}}
    \cup {Booking("b1", "Ann", "555", Tuesday, HM(9, 0), "cleaning")}
    \* requests that differ in the strings of date and time
    \cup {Booking("b1", "Ann", "555", d, HM(9, 0), "cleaning") : d \in DateStrings}
    \cup {Booking("b1", "Ann", "555", Monday, t, "cleaning") : t \in TimeStrings}
    \* requests that differ in the customer fields and the service
    \cup {Booking("b1", "Bob", "555", Monday, HM(9, 0), "x-ray"),
          Booking("b1", None, "555", Monday, HM(9, 0), "x-ray"),
          Booking("b1", "Bob", None, Monday, HM(9, 0), "x-ray")}
    \cup {Booking(b, "Bob", "555", Monday, HM(9, 0), None) : b \in Businesses}
    \* requests of the other business
    \cup {Booking("b2", "Ann", "555", Monday, t, "cleaning") : t \in {HM(9, 0), HM(9, 30)}}

Cancelling(business_id, name, phone) ==
    [intent |-> "cancel", business_id |-> business_id, customer_name |-> name,
     phone |-> phone, start_time |-> None]

CancelRequests ==
    {Cancelling(b, n, "555") : b \in Businesses, n \in {"Ann", "Bob"}}
    \cup {Cancelling("b1", n, "555") : n \in {None, ""}}
    \cup {Cancelling("b1", "Ann", p) : p \in {None, "777"}}

\* the bookings during which the store or the console may fail
FaultRequests ==
    {Booking("b1", "Ann", "555", Monday, HM(9, 0), s) : s \in {"cleaning", "EXAM"}}

\* a Monday morning at which both businesses are open: AfterHoursHandler
\* reports (False, "") and vapi_webhook returns the handler's result as it is
OpenNow == At(11, 2, 9, 15)

(***************************************************************************)
(* The webhook, one request at a time                                      *)
(***************************************************************************)
Threads == {1, 2}

\* no key fetched: AUTOINCREMENT keys start at 1
NoRow == 0

Init ==
    /\ appointments = {}
    /\ seq = 0
    /\ before = appointments
    /\ req = NoRequest
    /\ res = NoResult
    /\ calls = <<>>
    /\ env = NoFaults
    /\ now = OpenNow
    /\ orders = {}
    /\ messages = {}
    /\ prior = [seq |-> seq, orders |-> orders, messages |-> messages]
    /\ pc = [t \in Threads |-> "idle"]
    /\ treq = [t \in Threads |-> NoRequest]
    /\ tres = [t \in Threads |-> NoResult]
    /\ trow = [t \in Threads |-> NoRow]

\* vapi_webhook routing a scheduling intent to AppointmentPlugin.process
Book(r, e) ==
    LET out == Process(r, appointments, seq, e)
    IN  /\ req = NoRequest
        /\ out.seq <= MaxSeq
        /\ before' = appointments
        /\ prior' = [prior EXCEPT !.seq = seq]
        /\ req' = r
        /\ res' = out.res
        /\ calls' = out.calls
        /\ env' = e
        /\ appointments' = out.rows
        /\ seq' = out.seq
        /\ UNCHANGED <<pc, treq, tres, trow, web>>

\* vapi_webhook routing a cancellation intent to CancellationPlugin.process
Cancel(r) ==
    LET out == Cancellation(r, appointments)
    IN  /\ req = NoRequest
        /\ before' = appointments
        /\ prior' = [prior EXCEPT !.seq = seq]
        /\ req' = r
        /\ res' = out.res
        /\ calls' = out.calls
        /\ env' = NoFaults
        /\ appointments' = out.rows
        /\ UNCHANGED <<seq, pc, treq, tres, trow, web>>

\* vapi_webhook returning the result; the worker is free for the next request
Respond ==
    /\ req # NoRequest
    /\ req' = NoRequest
    /\ res' = NoResult
    /\ calls' = <<>>
    /\ env' = NoFaults
    /\ before' = appointments
    /\ prior' = [seq |-> seq, orders |-> orders, messages |-> messages]
    /\ now' = OpenNow
    /\ UNCHANGED <<appointments, seq, orders, messages, pc, treq, tres, trow>>

Next ==
    \/ \E r \in BookRequests : Book(r, NoFaults)
    \/ \E r \in FaultRequests, e \in Faults : Book(r, e)
    \/ \E r \in CancelRequests : Cancel(r)
    \/ Respond

Spec == Init /\ [][Next]_vars

(***************************************************************************)
(* The webhook served by concurrent worker threads.  Every statement that  *)
(* reaches the database is a step of its own: AppointmentPlugin opens a    *)
(* fresh connection for the SELECT of _check_availability and another for  *)
(* the INSERT of _book_appointment, with no transaction around the two.    *)
(***************************************************************************)
ConcRequests ==
    {Booking("b1", "Ann", "555", Monday, HM(9, 0), "cleaning"),
     Booking("b1", "Bob", "555", Monday, HM(9, 0), "x-ray"),
     Booking("b1", "Ann", "555", Monday, HM(9, 0), "EXAM"),
     Booking("b1", "Ann", "555", Monday, HM(9, 30), "cleaning"),
     Booking("b1", "Ann", "555", Monday, HM(8, 0), "cleaning"),
     Booking("b1", "Ann", "555", DateStr("other", 0, 0, 0), HM(9, 0), "cleaning"),
     Booking("b1", "Bob", "555", Monday, HM(9, 0), None),
     Booking("b2", "Ann", "555", Monday, HM(9, 0), "cleaning")}

ThreadStart(t) == ParseDatetime(treq[t].date, treq[t].time).value
ThreadDuration(t) ==
    GetServiceDuration(BusinessConfig(treq[t].business_id), treq[t].service).value

\* process up to the business-hours gate: nothing of it reads the table
ConcReceive(t, r) ==
    LET config == BusinessConfig(r.business_id)
        parsed == ParseDatetime(r.date, r.time)
        duration == GetServiceDuration(config, r.service)
        early == IF ~parsed.ok THEN Reply(FALSE, "reprompt")
                 ELSE IF ~duration.ok THEN ServerError("AttributeError")
                 ELSE Reply(FALSE, "not_open")
        passes == parsed.ok /\ duration.ok /\ IsWithinBusinessHours(config, parsed.value)
    IN  /\ pc[t] = "idle"
        /\ treq' = [treq EXCEPT ![t] = r]
        /\ tres' = [tres EXCEPT ![t] = IF passes THEN NoResult ELSE early]
        /\ pc' = [pc EXCEPT ![t] = IF passes THEN "check" ELSE "done"]
        /\ UNCHANGED <<appointments, seq, before, req, res, calls, env, prior, trow, web>>

\* the SELECT of _check_availability
ConcCheck(t) ==
    /\ pc[t] = "check"
    /\ pc' = [pc EXCEPT ![t] =
            IF CheckAvailability(appointments, ThreadStart(t), ThreadDuration(t),
                                 treq[t].business_id)
            THEN "insert" ELSE "search"]
    /\ UNCHANGED <<appointments, seq, before, req, res, calls, treq, tres, trow, env, prior, web>>

\* _find_alternative_times and the conflict result; the SELECTs of the
\* search are taken together, they write nothing
ConcSearch(t) ==
    /\ pc[t] = "search"
    /\ tres' = [tres EXCEPT ![t] =
            ConflictReply(FindAlternativeTimes(BusinessConfig(treq[t].business_id),
                            appointments, ThreadStart(t), ThreadDuration(t),
                            treq[t].business_id))]
    /\ pc' = [pc EXCEPT ![t] = "done"]
    /\ UNCHANGED <<appointments, seq, before, req, res, calls, treq, trow, env, prior, web>>

\* the INSERT and commit of _book_appointment, and the success result
ConcInsert(t) ==
    /\ pc[t] = "insert"
    /\ seq < MaxSeq
    /\ appointments' = appointments \cup
            {NewRow(seq + 1, treq[t], ThreadStart(t), ThreadDuration(t))}
    /\ seq' = seq + 1
    /\ tres' = [tres EXCEPT ![t] = BookedReply(seq + 1)]
    /\ pc' = [pc EXCEPT ![t] = "done"]
    /\ UNCHANGED <<before, req, res, calls, treq, trow, env, prior, web>>

\* the webhook returns; the thread takes the next request
ConcRespond(t) ==
    /\ pc[t] = "done"
    /\ pc' = [pc EXCEPT ![t] = "idle"]
    /\ treq' = [treq EXCEPT ![t] = NoRequest]
    /\ tres' = [tres EXCEPT ![t] = NoResult]
    /\ trow' = [trow EXCEPT ![t] = NoRow]
    /\ UNCHANGED <<appointments, seq, before, req, res, calls, env, prior, web>>

\* the cancellations the worker threads serve
ConcCancels ==
    {Cancelling("b1", "Ann", "555"), Cancelling("b1", "Bob", "555"),
     Cancelling("b1", None, "555")}

\* CancellationPlugin.process up to the SELECT: the test of name and phone
ConcCancelReceive(t, r) ==
    /\ pc[t] = "idle"
    /\ treq' = [treq EXCEPT ![t] = r]
    /\ tres' = [tres EXCEPT ![t] =
            IF Falsy(r.customer_name) \/ Falsy(r.phone)
            THEN Reply(FALSE, "missing_details") ELSE NoResult]
    /\ pc' = [pc EXCEPT ![t] =
            IF Falsy(r.customer_name) \/ Falsy(r.phone) THEN "done" ELSE "select"]
    /\ UNCHANGED <<appointments, seq, before, req, res, calls, env, prior, trow, web>>

\* SELECT id ... and fetchone(): the thread keeps the key of the first row
ConcSelect(t) ==
    LET found == Matches(appointments, treq[t].customer_name, treq[t].phone)
    IN  /\ pc[t] = "select"
        /\ trow' = [trow EXCEPT ![t] = IF found = {} THEN NoRow ELSE FirstRow(found).id]
        /\ tres' = [tres EXCEPT ![t] =
                IF found = {} THEN Reply(FALSE, "not_found") ELSE NoResult]
        /\ pc' = [pc EXCEPT ![t] = IF found = {} THEN "done" ELSE "delete"]
        /\ UNCHANGED <<appointments, seq, before, req, res, calls, treq, env, prior, web>>

\* DELETE ... WHERE id = ?, commit, and the success result, whatever the
\* number of rows the DELETE removed
ConcDelete(t) ==
    /\ pc[t] = "delete"
    /\ appointments' = {a \in appointments : a.id # trow[t]}
    /\ tres' = [tres EXCEPT ![t] = Reply(TRUE, "canceled")]
    /\ pc' = [pc EXCEPT ![t] = "done"]
    /\ UNCHANGED <<seq, before, req, res, calls, treq, trow, env, prior, web>>

ConcNext ==
    \/ \E t \in Threads, r \in ConcRequests : ConcReceive(t, r)
    \/ \E t \in Threads : ConcCheck(t)
    \/ \E t \in Threads : ConcSearch(t)
    \/ \E t \in Threads : ConcInsert(t)
    \/ \E t \in Threads, r \in ConcCancels : ConcCancelReceive(t, r)
    \/ \E t \in Threads : ConcSelect(t)
    \/ \E t \in Threads : ConcDelete(t)
    \/ \E t \in Threads : ConcRespond(t)

ConcSpec == Init /\ [][ConcNext]_vars

(***************************************************************************)
(* AfterHoursHandler.  A message is the f-string that produced it: the     *)
(* template and the values substituted into it.                            *)
(***************************************************************************)
\* str.title() on the names of the weekdays
Title(day) ==
    CASE day = "monday"    -> "Monday"
      [] day = "tuesday"   -> "Tuesday"
      [] day = "wednesday" -> "Wednesday"
      [] day = "thursday"  -> "Thursday"
      [] day = "friday"    -> "Friday"
      [] day = "saturday"  -> "Saturday"
      [] day = "sunday"    -> "Sunday"

\* time.strftime('%I:%M %p').lstrip('0')
Format12(tod) ==
    [h  |-> IF (tod \div MinutesPerHour) % 12 = 0 THEN 12
            ELSE (tod \div MinutesPerHour) % 12,
     mi |-> tod % MinutesPerHour,
     ap |-> IF tod \div MinutesPerHour < 12 THEN "AM" ELSE "PM"]

NoTime == [h |-> 0, mi |-> 0, ap |-> ""]

\* config.get('business_name', 'us')
BusinessName(config) ==
    IF config.business_name = None THEN "us" ELSE config.business_name

\* hours.split('-')[0].strip() read with '%H:%M'
OpeningOf(hours) ==
    IF Len(hours.parts) >= 1 THEN StrpTime(hours.parts[1], "%H:%M") ELSE Fail

\* a search that stops before it wraps around to today's weekday
RECURSIVE NextOpenFromSix(_, _, _)
NextOpenFromSix(config, current_day_index, i) ==
    IF i > 6 THEN [text |-> "during our business hours", day |-> "", at |-> NoTime]
    ELSE LET next_day == days[((current_day_index + i) % 7) + 1]
             hours == config.business_hours[next_day]
         IN  IF ~NotOpen(hours)
             THEN IF OpeningOf(hours).ok
                  THEN [text |-> "day at", day |-> Title(next_day),
                        at |-> Format12(OpeningOf(hours).value)]
                  ELSE [text |-> "day", day |-> Title(next_day), at |-> NoTime]
             ELSE NextOpenFromSix(config, current_day_index, i + 1)

\* the loop of _get_next_open_day from offset i on
RECURSIVE NextOpenFrom(_, _, _)
NextOpenFrom(config, current_day_index, i) ==
    IF i > 7 THEN [text |-> "during our business hours", day |-> "", at |-> NoTime]
    ELSE LET next_day == days[((current_day_index + i) % 7) + 1]
             hours == config.business_hours[next_day]
         IN  IF ~NotOpen(hours)
             THEN IF OpeningOf(hours).ok
                  THEN [text |-> "day at", day |-> Title(next_day),
                        at |-> Format12(OpeningOf(hours).value)]
                  ELSE [text |-> "day", day |-> Title(next_day), at |-> NoTime]
             ELSE NextOpenFrom(config, current_day_index, i + 1)

\* AfterHoursHandler._get_next_open_day
GetNextOpenDay(config, t) == NextOpenFrom(config, Weekday(DateOf(t)), 1)

\* AfterHoursHandler._get_next_open_time
GetNextOpenTime(config, t) ==
    LET tomorrow == DayName(DateOf(t) + 1)
        tomorrow_hours == config.business_hours[tomorrow]
    IN  IF ~NotOpen(tomorrow_hours)
        THEN IF OpeningOf(tomorrow_hours).ok
             THEN [text |-> "tomorrow at", day |-> "",
                   at |-> Format12(OpeningOf(tomorrow_hours).value)]
             ELSE [text |-> "tomorrow", day |-> "", at |-> NoTime]
        ELSE GetNextOpenDay(config, t)

NoNextOpen == [text |-> "", day |-> "", at |-> NoTime]

\* the empty string returned with False
NoMessage ==
    [template |-> "", business_name |-> "", day |-> "", opens |-> NoTime,
     next_open |-> NoNextOpen]

\* AfterHoursHandler._get_closed_message
GetClosedMessage(config, t, day) ==
    [template |-> "closed", business_name |-> BusinessName(config),
     day |-> Title(day), opens |-> NoTime, next_open |-> GetNextOpenDay(config, t)]

\* AfterHoursHandler._get_before_open_message
GetBeforeOpenMessage(config, open_time) ==
    [template |-> "before_open", business_name |-> BusinessName(config),
     day |-> "", opens |-> Format12(open_time), next_open |-> NoNextOpen]

\* AfterHoursHandler._get_after_close_message
GetAfterCloseMessage(config, t) ==
    [template |-> "after_close", business_name |-> BusinessName(config),
     day |-> "", opens |-> NoTime, next_open |-> GetNextOpenTime(config, t)]

\* hours that cannot be parsed counted as a closed day
IsAfterHoursFailClosed(config, t) ==
    LET current_day == DayName(DateOf(t))
        hours_today == config.business_hours[current_day]
        parsed == ParseHours(hours_today)
    IN  IF NotOpen(hours_today) \/ ~parsed.ok
        THEN [after |-> TRUE, message |-> GetClosedMessage(config, t, current_day)]
        ELSE IF TimeOf(t) < parsed.open
        THEN [after |-> TRUE, message |-> GetBeforeOpenMessage(config, parsed.open)]
        ELSE IF TimeOf(t) > parsed.close
        THEN [after |-> TRUE, message |-> GetAfterCloseMessage(config, t)]
        ELSE [after |-> FALSE, message |-> NoMessage]

\* the closing minute itself counted as after hours
IsAfterHoursCloseExclusive(config, t) ==
    LET current_day == DayName(DateOf(t))
        hours_today == config.business_hours[current_day]
        parsed == ParseHours(hours_today)
    IN  IF NotOpen(hours_today)
        THEN [after |-> TRUE, message |-> GetClosedMessage(config, t, current_day)]
        ELSE IF ~parsed.ok THEN [after |-> FALSE, message |-> NoMessage]
        ELSE IF TimeOf(t) < parsed.open
        THEN [after |-> TRUE, message |-> GetBeforeOpenMessage(config, parsed.open)]
        ELSE IF TimeOf(t) >= parsed.close
        THEN [after |-> TRUE, message |-> GetAfterCloseMessage(config, t)]
        ELSE [after |-> FALSE, message |-> NoMessage]

\* AfterHoursHandler.is_after_hours at instant t: the pair it returns
IsAfterHours(config, t) ==
    LET current_day == DayName(DateOf(t))
        hours_today == config.business_hours[current_day]
        parsed == ParseHours(hours_today)
    IN  IF NotOpen(hours_today)
        THEN [after |-> TRUE, message |-> GetClosedMessage(config, t, current_day)]
        ELSE IF ~parsed.ok THEN [after |-> FALSE, message |-> NoMessage]
        ELSE IF TimeOf(t) < parsed.open
        THEN [after |-> TRUE, message |-> GetBeforeOpenMessage(config, parsed.open)]
        ELSE IF TimeOf(t) > parsed.close
        THEN [after |-> TRUE, message |-> GetAfterCloseMessage(config, t)]
        ELSE [after |-> FALSE, message |-> NoMessage]

(***************************************************************************)
(* The other plugins, the plugin manager and the whole of vapi_webhook     *)
(***************************************************************************)
\* a result with the keys any plugin or the webhook may set
Wide(r) ==
    [status |-> r.status, success |-> r.success, message |-> r.message,
     keys |-> r.keys, alternatives |-> r.alternatives, action |-> r.action,
     appointment_id |-> r.appointment_id, error |-> r.error,
     answer |-> "", order_id |-> 0,
     after_hours |-> FALSE, after_hours_note |-> NoMessage, appended |-> ""]

\* the early returns of vapi_webhook: HTTP 400 and 404
ClientError(status, e) == [ServerError(e) EXCEPT !.status = status]

\* the four tables a handler may touch
Tables(a, sq, o, m) == [appointments |-> a, seq |-> sq, orders |-> o, messages |-> m]

\* OrderPlugin.process; no row of orders is ever deleted, so the next key
\* of the AUTOINCREMENT column is the number of rows plus one
OrderProcess(data, T) ==
    LET order_id == Cardinality(T.orders) + 1
        row == [id |-> order_id, business_id |-> data.business_id,
                customer_name |-> data.customer_name, phone |-> data.phone,
                order_items |-> data.order_items, total |-> data.total,
                pickup_time |-> data.pickup_time,
                delivery_address |-> data.delivery_address,
                special_instructions |-> data.special_instructions,
                status |-> "pending"]
    IN  [res |-> [Wide(Reply(TRUE, "order_confirmed")) EXCEPT
                    !.keys = {"success", "message", "order_id"},
                    !.order_id = order_id],
         tables |-> [T EXCEPT !.orders = T.orders \cup {row}],
         calls |-> <<"OrderPlugin.process", "INSERT", "_notify_business">>]

\* `keyword.strip() in question` for the questions and keywords of the model
Contains(question, keyword) ==
    <<question, keyword>> \in {<<"what are your hours?", "hours">>}

\* FAQPlugin._find_answer: the first entry one of whose keywords occurs
FindAnswer(question, faqs) ==
    LET hits == {i \in 1..Len(faqs) :
                    \E k \in 1..Len(faqs[i].keywords) :
                        Contains(question, faqs[i].keywords[k])}
    IN  IF hits = {} THEN None
        ELSE faqs[CHOOSE i \in hits : \A j \in hits : i <= j].answer

\* FAQPlugin.process
FAQProcess(config, data, T) ==
    LET answer == FindAnswer(Lower(data.question), config.faq)
    IN  [res |-> [Wide(Reply(answer # None, "")) EXCEPT
                    !.keys = {"success", "answer"},
                    !.answer = IF answer # None THEN answer ELSE "not_sure_callback"],
         tables |-> T,
         calls |-> IF answer # None THEN <<"FAQPlugin.process", "_find_answer">>
                   ELSE <<"FAQPlugin.process", "_find_answer", "_log_unknown_question">>]

\* MessagePlugin.process
MessageProcess(data, T) ==
    LET row == [id |-> Cardinality(T.messages) + 1, business_id |-> data.business_id,
                caller_name |-> data.caller_name, phone |-> data.phone,
                message |-> data.message, priority |-> data.priority,
                status |-> "new"]
    IN  [res |-> Wide(Reply(TRUE, "message_taken")),
         tables |-> [T EXCEPT !.messages = T.messages \cup {row}],
         calls |-> <<"MessagePlugin.process", "INSERT", "_notify_business">>]

\* the order in which _load_plugins tests the features
PluginOrder ==
    <<"AppointmentPlugin", "OrderPlugin", "FAQPlugin", "MessagePlugin",
      "CancellationPlugin">>

\* `feature in enabled_features`
Enabled(config, feature) ==
    \E i \in 1..Len(config.enabled_features) : config.enabled_features[i] = feature

\* the test _load_plugins makes before appending a plugin
Loads(config, plugin) ==
    CASE plugin = "AppointmentPlugin" ->
            Enabled(config, "appointments") \/ Enabled(config, "reservations")
      [] plugin = "OrderPlugin" -> Enabled(config, "orders")
      [] plugin = "FAQPlugin" -> Enabled(config, "faq")
      [] plugin = "MessagePlugin" -> Enabled(config, "messages")
      [] plugin = "CancellationPlugin" -> Enabled(config, "cancellations")

\* every plugin loaded, whatever the configuration enables
LoadPluginsAll(config) == PluginOrder

\* PluginManager._load_plugins
LoadPlugins(config) == SelectSeq(PluginOrder, LAMBDA plugin : Loads(config, plugin))

\* Plugin.can_handle of the five plugins
CanHandle(plugin, intent) ==
    intent \in
        CASE plugin = "AppointmentPlugin" ->
                {"schedule_appointment", "book_appointment", "make_reservation"}
          [] plugin = "OrderPlugin" -> {"place_order", "order_food", "make_order"}
          [] plugin = "FAQPlugin" -> {"ask_question", "faq", "inquiry"}
          [] plugin = "MessagePlugin" -> {"leave_message", "take_message", "callback"}
          [] plugin = "CancellationPlugin" -> {"cancellation", "cancel"}

\* Plugin.process of the five plugins; the keys is_after_hours and
\* after_hours_message of call_data are read by none of them
PluginProcess(plugin, config, call_data, T, e) ==
    CASE plugin = "AppointmentPlugin" ->
            LET out == Process(call_data.data, T.appointments, T.seq, e)
            IN  [res |-> Wide(out.res),
                 tables |-> [T EXCEPT !.appointments = out.rows, !.seq = out.seq],
                 calls |-> <<"AppointmentPlugin.process">> \o out.calls]
      [] plugin = "OrderPlugin" -> OrderProcess(call_data.data, T)
      [] plugin = "FAQPlugin" -> FAQProcess(config, call_data.data, T)
      [] plugin = "MessagePlugin" -> MessageProcess(call_data.data, T)
      [] plugin = "CancellationPlugin" ->
            LET out == Cancellation(call_data.data, T.appointments)
            IN  [res |-> Wide(out.res),
                 tables |-> [T EXCEPT !.appointments = out.rows],
                 calls |-> <<"CancellationPlugin.process">> \o out.calls]

\* the result of route_request when no plugin takes the intent
NotRouted == Wide(Reply(FALSE, "not_sure"))

\* a router whose scheduling handler turns callers away after hours
RouteRequestOfficeHours(plugins, config, intent, call_data, T, e) ==
    LET hits == {i \in 1..Len(plugins) : CanHandle(plugins[i], intent)}
        first == CHOOSE i \in hits : \A j \in hits : i <= j
    IN  IF hits = {} THEN [res |-> NotRouted, tables |-> T, calls |-> <<>>]
        ELSE IF plugins[first] = "AppointmentPlugin" /\ call_data.is_after_hours
        THEN [res |-> Wide(Reply(FALSE, "not_open")), tables |-> T,
              calls |-> <<"AppointmentPlugin.process">>]
        ELSE PluginProcess(plugins[first], config, call_data, T, e)

\* PluginManager.route_request: the first plugin of the list that can handle
\* the intent processes the data
RouteRequest(plugins, config, intent, call_data, T, e) ==
    LET hits == {i \in 1..Len(plugins) : CanHandle(plugins[i], intent)}
        first == CHOOSE i \in hits : \A j \in hits : i <= j
    IN  IF hits = {} THEN [res |-> NotRouted, tables |-> T, calls |-> <<>>]
        ELSE PluginProcess(plugins[first], config, call_data, T, e)

\* " You'll receive a confirmation when our office opens."
ConfirmationNote == "confirmation_when_office_opens"

\* the after-hours part of vapi_webhook: the keys added to the result
Annotate(result, intent, hours) ==
    IF ~hours.after THEN result
    ELSE [result EXCEPT
            !.keys = @ \cup {"after_hours", "after_hours_note"},
            !.after_hours = TRUE,
            !.after_hours_note = hours.message,
            !.appended = IF intent \in {"schedule_appointment", "book_appointment"}
                            /\ result.success
                         THEN ConfirmationNote ELSE ""]

\* call_data as route_request receives it
CallData(r, business_id, hours) ==
    [data |-> [r EXCEPT !.business_id = business_id],
     is_after_hours |-> hours.after,
     after_hours_message |-> hours.message]

\* the end of vapi_webhook: an exception raised by the handler skips the
\* after-hours part and is answered by the except branch
Finish(out, intent, hours) ==
    IF out.res.status = 500 THEN out
    ELSE [out EXCEPT !.res = Annotate(out.res, intent, hours)]

\* vapi_webhook from the after-hours check on
Serve(r, business_id, config, hours, T, e) ==
    Finish(RouteRequest(LoadPlugins(config), config, r.intent,
                        CallData(r, business_id, hours), T, e),
           r.intent, hours)

\* data.get('business_id') or data.get('metadata', {}).get('business_id')
BusinessId(r) == IF ~Falsy(r.business_id) THEN r.business_id ELSE r.metadata

\* vapi_webhook for request r on tables T at instant t
VapiWebhook(r, T, t, e) ==
    IF Falsy(BusinessId(r))
    THEN [res |-> Wide(ClientError(400, "No business_id provided")),
          tables |-> T, calls |-> <<>>]
    ELSE IF BusinessId(r) \notin ConfigFiles
    THEN [res |-> Wide(ClientError(404, "Config not found")),
          tables |-> T, calls |-> <<>>]
    ELSE Serve(r, BusinessId(r), BusinessConfig(BusinessId(r)),
               IsAfterHours(BusinessConfig(BusinessId(r)), t), T, e)

(***************************************************************************)
(* The webhook at any hour, for every intent                               *)
(***************************************************************************)
WithIntent(r, intent) == [r EXCEPT !.intent = intent]

Ordering(business_id, intent) ==
    [intent |-> intent, business_id |-> business_id, customer_name |-> "Ann",
     phone |-> "555", order_items |-> "2 pizzas", total |-> 20,
     pickup_time |-> "18:00", delivery_address |-> "", special_instructions |-> ""]

Asking(business_id, intent, question) ==
    [intent |-> intent, business_id |-> business_id, question |-> question]

Leaving(business_id, metadata, intent) ==
    [intent |-> intent, business_id |-> business_id, metadata |-> metadata,
     caller_name |-> "Ann", phone |-> "555", message |-> "Please call back.",
     priority |-> "normal"]

WebRequests ==
    {WithIntent(Booking("b1", "Ann", "555", Monday, HM(9, 0), "cleaning"), i) :
        i \in {"schedule_appointment", "book_appointment", "make_reservation"}}
    \cup {Booking("b1", "Ann", "555", Monday, HM(8, 0), "cleaning"),
          Booking("b1", "Bob", "555", Monday, HM(9, 0), None),
          WithIntent(Booking("b2", "Ann", "555", Monday, HM(9, 0), "cleaning"),
                     "make_reservation")}
    \cup {Cancelling("b1", "Ann", "555"),
          WithIntent(Cancelling("b2", "Bob", "555"), "cancellation")}
    \cup {Ordering("b2", "place_order"), Ordering("b1", "order_food")}
    \cup {Asking("b1", "ask_question", "What are your HOURS?"),
          Asking("b1", "faq", "Do you sell pizza?"),
          Asking("b2", "inquiry", "What are your HOURS?")}
    \cup {Leaving("b1", None, "leave_message"), Leaving("b2", None, "callback"),
          Leaving(None, "b1", "take_message"), Leaving(None, None, "take_message"),
          Leaving("b9", None, "take_message")}
    \cup {[intent |-> "transfer_call", business_id |-> b] : b \in {"b1", "b3", "b4"}}
    \cup {[intent |-> None, business_id |-> "b1"]}
    \* a booking on a weekday whose hours string is no pair of %H:%M times
    \cup {Booking("b1", "Ann", "555", Friday, HM(8, 0), "cleaning")}

\* the instants at which requests arrive, in the week of Monday 2026-11-02
Nows ==
    {At(11, 2, 8, 0), At(11, 2, 9, 0), OpenNow, At(11, 2, 11, 0), At(11, 2, 11, 30),
     At(11, 3, 10, 0), At(11, 4, 10, 30), At(11, 5, 10, 0), At(11, 6, 10, 0),
     At(11, 7, 10, 45), At(11, 8, 12, 0)}

\* the state after vapi_webhook has produced outcome out
Served(r, t, out) ==
    /\ out.tables.seq <= MaxSeq
    /\ Cardinality(out.tables.orders) <= MaxRows
    /\ Cardinality(out.tables.messages) <= MaxRows
    /\ before' = appointments
    /\ prior' = [seq |-> seq, orders |-> orders, messages |-> messages]
    /\ now' = t
    /\ req' = r
    /\ res' = out.res
    /\ calls' = out.calls
    /\ env' = NoFaults
    /\ appointments' = out.tables.appointments
    /\ seq' = out.tables.seq
    /\ orders' = out.tables.orders
    /\ messages' = out.tables.messages
    /\ UNCHANGED <<pc, treq, tres, trow>>

\* vapi_webhook serving request r at instant t
Vapi(r, t) ==
    /\ req = NoRequest
    /\ Served(r, t, VapiWebhook(r, Tables(appointments, seq, orders, messages),
                                t, NoFaults))

WebNext ==
    \/ \E r \in WebRequests, t \in Nows : Vapi(r, t)
    \/ Respond

WebSpec == Init /\ [][WebNext]_vars

(***************************************************************************)
(* Properties                                                              *)
(***************************************************************************)
StartOf(a) == FromIso(a.start_time)
EndOf(a) == FromIso(a.end_time)

\* two half-open intervals [s1, e1) and [s2, e2) overlap
Overlap(s1, e1, s2, e2) == s1 < e2 /\ s2 < e1

Confirmed(rows, business_id) ==
    {a \in rows : a.business_id = business_id /\ a.status = "confirmed"}

IsBooking(r) ==
    r.intent \in {"schedule_appointment", "book_appointment", "make_reservation"}

\* the instant a booking request asks for, when its strings parse
Parses(r) == ParseDatetime(r.date, r.time).ok
RequestedStart(r) == ParseDatetime(r.date, r.time).value

\* the duration of the service of a request per the catalog: the first entry
\* whose name matches case-insensitively, else 30 minutes
Resolves(r) == GetServiceDuration(BusinessConfig(r.business_id), r.service).ok
CatalogMatches(r) ==
    {i \in 1..Len(BusinessConfig(r.business_id).appointment_types) :
        Lower(BusinessConfig(r.business_id).appointment_types[i].name) = Lower(r.service)}
RequestedDuration(r) ==
    IF CatalogMatches(r) = {} THEN 30
    ELSE BusinessConfig(r.business_id).appointment_types[
            CHOOSE i \in CatalogMatches(r) : \A j \in CatalogMatches(r) : i <= j].duration
RequestedEnd(r) == RequestedStart(r) + RequestedDuration(r)

\* the confirmed appointments of the request's business that its interval overlaps
Overlapped(r, rows) ==
    {a \in Confirmed(rows, r.business_id) :
        Overlap(StartOf(a), EndOf(a), RequestedStart(r), RequestedEnd(r))}

\* C1: processing booking and cancellation requests one at a time from an
\* empty table, no two distinct confirmed appointments of the same business
\* have overlapping half-open intervals [start, end).
C1_NoDoubleBooking ==
    \A a, b \in appointments :
        (a # b /\ a.business_id = b.business_id
         /\ a.status = "confirmed" /\ b.status = "confirmed")
        => ~Overlap(StartOf(a), EndOf(a), StartOf(b), EndOf(b))

\* two confirmed appointments of one business that exactly touch
C1_Witness ==
    \E a, b \in appointments :
        /\ a # b /\ a.business_id = b.business_id
        /\ a.status = "confirmed" /\ b.status = "confirmed"
        /\ EndOf(a) = StartOf(b)

\* C3: a booking request whose interval overlaps a confirmed appointment of
\* its business inserts nothing and is answered with success:false.
C3_ConflictNeverInserts ==
    (IsBooking(req) /\ Parses(req) /\ Resolves(req) /\ Overlapped(req, before) # {})
    => (appointments = before /\ res.success = FALSE)

\* a conflicting request for which the alternative search found nothing
C3_Witness ==
    /\ IsBooking(req) /\ Parses(req) /\ Resolves(req)
    /\ Overlapped(req, before) # {}
    /\ res.action = "suggest_alternatives"
    /\ res.alternatives = <<>>

ProbeStarts ==
    {Combine(Ordinal0(11, 2), h * MinutesPerHour + m) : h \in 8..11, m \in {0, 15, 30, 45}}
ProbeDurations == {30, 45, 60}

\* C4: the availability check reports a conflict iff some confirmed
\* appointment of the business overlaps the requested half-open interval;
\* a request that touches a stored appointment at either end is booked.
\* (Every content the table takes is held in a state where the worker is
\* idle; the availability query is probed there, and the request served is
\* examined in the other states.)
C4_HalfOpenOverlap ==
    /\ req = NoRequest =>
          \A b \in Businesses, t \in ProbeStarts, d \in ProbeDurations :
              CheckAvailability(appointments, t, d, b)
              <=> ~\E a \in Confirmed(appointments, b) :
                      Overlap(StartOf(a), EndOf(a), t, t + d)
    /\ (IsBooking(req) /\ Parses(req) /\ Resolves(req)
        /\ "_check_availability" \in {calls[i] : i \in 1..Len(calls)})
       => (res.action = "suggest_alternatives" <=> Overlapped(req, before) # {})

\* a request starting exactly at the end of a stored appointment was booked
C4_Witness ==
    /\ IsBooking(req) /\ res.success
    /\ \E a \in Confirmed(before, req.business_id) : EndOf(a) = RequestedStart(req)
    /\ \E a \in appointments \ before : StartOf(a) = RequestedStart(req)

\* the open and close minute of a weekday of a business, read off the
\* hours table; defined for the days whose entry is a well-formed range
WellFormed(hours) ==
    /\ hours.lit = ""
    /\ Len(hours.parts) = 2
    /\ \A i \in 1..2 : /\ hours.parts[i].layout = "N:N"
                       /\ hours.parts[i].h \in 0..23
                       /\ hours.parts[i].mi \in 0..59
HoursOn(business_id, day0) == BusinessConfig(business_id).business_hours[DayName(day0)]
OpenOn(business_id, day0) ==
    HoursOn(business_id, day0).parts[1].h * 60 + HoursOn(business_id, day0).parts[1].mi
CloseOn(business_id, day0) ==
    HoursOn(business_id, day0).parts[2].h * 60 + HoursOn(business_id, day0).parts[2].mi
ClosedOn(business_id, day0) == HoursOn(business_id, day0).lit \in {"closed", None}

\* the start instant t lies in the business hours of its day
InHours(business_id, t) ==
    /\ WellFormed(HoursOn(business_id, DateOf(t)))
    /\ OpenOn(business_id, DateOf(t)) <= TimeOf(t)
    /\ TimeOf(t) <= CloseOn(business_id, DateOf(t))

\* the start instant t lies outside them: a closed day, before open, after close
OutOfHours(business_id, t) ==
    \/ ClosedOn(business_id, DateOf(t))
    \/ /\ WellFormed(HoursOn(business_id, DateOf(t)))
       /\ \/ TimeOf(t) < OpenOn(business_id, DateOf(t))
          \/ TimeOf(t) > CloseOn(business_id, DateOf(t))

Called(name) == \E i \in 1..Len(calls) : calls[i] = name

\* C5: a parseable, within-hours booking request that overlaps no confirmed
\* appointment of its business inserts exactly one appointment (confirmed,
\* start as requested, end = start + the service's duration, a key no other
\* row holds) and returns success:true with its appointment_id; the rows
\* stored before are unchanged.  (Stated for a store that accepts the
\* INSERT; the console may still fail under _notify_business.)
C5_BookingInsertsOne ==
    (IsBooking(req) /\ Parses(req) /\ Resolves(req) /\ env.store
     /\ InHours(req.business_id, RequestedStart(req))
     /\ Overlapped(req, before) = {})
    => /\ before \subseteq appointments
       /\ \E a \in appointments \ before :
            /\ appointments = before \cup {a}
            /\ a.status = "confirmed"
            /\ a.business_id = req.business_id
            /\ StartOf(a) = RequestedStart(req)
            /\ EndOf(a) = RequestedStart(req) + RequestedDuration(req)
            /\ \A b \in appointments : b.id = a.id => b = a
            /\ res.success = TRUE
            /\ "appointment_id" \in res.keys
            /\ res.appointment_id = a.id

\* C6: a booking request whose start is outside business hours is answered
\* with success:false before the conflict check: no availability query and
\* no alternative search run, the result has no alternatives, nothing is
\* inserted.
C6_OutsideHoursRejected ==
    (IsBooking(req) /\ Parses(req) /\ OutOfHours(req.business_id, RequestedStart(req)))
    => /\ res.success = FALSE
       /\ ~Called("_check_availability")
       /\ ~Called("_find_alternative_times")
       /\ ~Called("_book_appointment")
       /\ "alternatives" \notin res.keys
       /\ res.alternatives = <<>>
       /\ appointments = before

\* a request before opening time on a day whose slot is free, and one on a
\* closed day, are both rejected by the gate itself
C6_Witness ==
    /\ IsBooking(req) /\ Parses(req) /\ Resolves(req)
    /\ OutOfHours(req.business_id, RequestedStart(req))
    /\ Overlapped(req, before) = {}
    /\ res.message = "not_open"

\* C7: the business-hours gate depends on the start instant only: a request
\* that reaches it passes iff the weekday of the start is not closed and
\* open <= time of day <= close, whatever the duration; a free slot starting
\* at closing time is booked although it ends after closing.
C7_GateOnStartOnly ==
    (IsBooking(req) /\ Parses(req) /\ Resolves(req)
     /\ (ClosedOn(req.business_id, DateOf(RequestedStart(req)))
         \/ WellFormed(HoursOn(req.business_id, DateOf(RequestedStart(req))))))
    => /\ Called("_is_within_business_hours")
       /\ Called("_check_availability") <=> InHours(req.business_id, RequestedStart(req))
       /\ res.message = "not_open" <=> ~InHours(req.business_id, RequestedStart(req))
       /\ (/\ InHours(req.business_id, RequestedStart(req))
           /\ TimeOf(RequestedStart(req)) = CloseOn(req.business_id, DateOf(RequestedStart(req)))
           /\ Overlapped(req, before) = {})
          => res.success = TRUE

\* a booking that starts exactly at closing time and ends after it
C7_Witness ==
    /\ IsBooking(req) /\ res.success
    /\ WellFormed(HoursOn(req.business_id, DateOf(RequestedStart(req))))
    /\ TimeOf(RequestedStart(req)) = CloseOn(req.business_id, DateOf(RequestedStart(req)))
    /\ \E a \in appointments \ before :
          TimeOf(EndOf(a)) > CloseOn(req.business_id, DateOf(RequestedStart(req)))

\* C8: the alternatives of a conflicting request never overlap a confirmed
\* appointment of the business, lie inside the open/close window of their
\* day, come in non-decreasing chronological order, and never include the
\* requested slot.
C8_AlternativesSound ==
    (IsBooking(req) /\ res.action = "suggest_alternatives")
    => /\ \A i \in 1..Len(res.alternatives) :
            LET c == FromIso(res.alternatives[i].datetime)
            IN  /\ \A a \in Confirmed(appointments, req.business_id) :
                      ~Overlap(StartOf(a), EndOf(a), c, c + RequestedDuration(req))
                /\ WellFormed(HoursOn(req.business_id, DateOf(c)))
                /\ OpenOn(req.business_id, DateOf(c)) <= TimeOf(c)
                /\ TimeOf(c) <= CloseOn(req.business_id, DateOf(c))
                /\ c # RequestedStart(req)
       /\ \A i, j \in 1..Len(res.alternatives) :
            i < j => FromIso(res.alternatives[i].datetime)
                       <= FromIso(res.alternatives[j].datetime)

\* a search that skipped a slot of the grid taken by a stored appointment
\* other than the requested one, and still collected several alternatives
C8_Witness ==
    /\ IsBooking(req) /\ res.action = "suggest_alternatives"
    /\ Len(res.alternatives) >= 3
    /\ \E a \in Confirmed(before, req.business_id) :
          /\ StartOf(a) # RequestedStart(req)
          /\ \A i \in 1..Len(res.alternatives) :
                FromIso(res.alternatives[i].datetime) # StartOf(a)
          /\ \E i \in 1..Len(res.alternatives) :
                FromIso(res.alternatives[i].datetime) > StartOf(a)

\* a date or time string that is absent or that none of the formats accepts
AcceptedDate(s) ==
    s.layout # None /\ \E i \in 1..Len(date_formats) : StrpDate(s, date_formats[i]).ok
AcceptedTime(s) ==
    s.layout # None /\ \E i \in 1..Len(time_formats) : StrpTime(s, time_formats[i]).ok

\* C9: a booking request whose date or time string matches no accepted
\* pattern, or is absent, is answered with success:false and the re-prompt
\* message (never the parser's error), inserts nothing, and runs no hours
\* check, conflict check or alternative search.
C9_UnparseableReprompts ==
    (IsBooking(req) /\ (~AcceptedDate(req.date) \/ ~AcceptedTime(req.time)))
    => /\ res.status = 200
       /\ res.success = FALSE
       /\ res.message = "reprompt"
       /\ res.keys = {"success", "message"}
       /\ res.error = ""
       /\ appointments = before
       /\ calls = <<"_parse_datetime">>

\* a request with a well-formed date but a time no format accepts, for a
\* slot that is otherwise free
C9_Witness ==
    /\ IsBooking(req)
    /\ AcceptedDate(req.date) /\ req.time.layout # None /\ ~AcceptedTime(req.time)
    /\ res.message = "reprompt"

\* C2: under any interleaving of two concurrent booking requests for
\* overlapping times on the same business, the two never both succeed and
\* the table never holds two overlapping confirmed appointments of it.
C2_AtomicCheckInsert ==
    /\ \A a, b \in appointments :
          (a # b /\ a.business_id = b.business_id
           /\ a.status = "confirmed" /\ b.status = "confirmed")
          => ~Overlap(StartOf(a), EndOf(a), StartOf(b), EndOf(b))
    /\ \A t, u \in Threads :
          (/\ t # u
           /\ pc[t] = "done" /\ pc[u] = "done"
           /\ tres[t].success /\ tres[u].success
           /\ treq[t].business_id = treq[u].business_id)
          => ~Overlap(ThreadStart(t), ThreadStart(t) + ThreadDuration(t),
                      ThreadStart(u), ThreadStart(u) + ThreadDuration(u))

\* C10: a booking request that omits customer name, phone or service name
\* is answered with a structured success:false result (never a raise out of
\* the handler), and no appointment is stored for it or with a missing
\* customer name or phone.
C10_MissingFieldRejected ==
    /\ (IsBooking(req)
        /\ (req.customer_name = None \/ req.phone = None \/ req.service = None))
       => /\ res.status = 200
          /\ res.success = FALSE
          /\ "message" \in res.keys
          /\ appointments = before
    /\ \A a \in appointments : a.customer_name # None /\ a.phone # None

\* C11: when the store fails during the insert step of a booking, the
\* caller receives the generic success:false "trouble booking, we'll call
\* you back" result, and the text of the storage error is no part of the
\* response.
C11_StoreFailureIsGeneric ==
    (IsBooking(req) /\ ~env.store /\ Called("_book_appointment"))
    => /\ res = TroubleReply
       /\ "error" \notin res.keys
       /\ res.error = ""

\* C12: the notification is fired only after the appointment insert has
\* been committed, and a failure of the notification neither removes the
\* inserted appointment nor changes the booking's response from
\* success:true.
C12_NotificationNeverFailsBooking ==
    (IsBooking(req) /\ Called("_notify_business"))
    => /\ \E i \in 1..Len(calls) :
            /\ calls[i] = "_book_appointment"
            /\ \A j \in 1..Len(calls) : calls[j] = "_notify_business" => i < j
       /\ \E a \in appointments \ before :
            /\ appointments = before \cup {a}
            /\ StartOf(a) = RequestedStart(req)
       /\ res.success = TRUE

IsCancel(r) == r.intent \in {"cancellation", "cancel"}

\* the rows stored at arrival that carry the request's name and phone
Matching(r) ==
    {a \in before : a.customer_name = r.customer_name /\ a.phone = r.phone}

\* C13: a cancellation request whose name and phone match no stored
\* appointment returns success:false and leaves the store unchanged.
C13_NoMatchNoChange ==
    (IsCancel(req) /\ ~Falsy(req.customer_name) /\ ~Falsy(req.phone)
     /\ Matching(req) = {})
    => /\ res.success = FALSE
       /\ appointments = before

\* a cancellation under a stored customer's name with another phone
C13_Witness ==
    /\ IsCancel(req) /\ ~Falsy(req.customer_name) /\ ~Falsy(req.phone)
    /\ Matching(req) = {}
    /\ \E a \in before : a.customer_name = req.customer_name
    /\ res.success = FALSE

\* C14: a cancellation request in which customer name or phone is absent or
\* empty returns success:false with the validation message, performs no
\* lookup and leaves the store unchanged, even when a stored appointment
\* matches the field that was supplied.
C14_MissingDetailsNoLookup ==
    (IsCancel(req) /\ (Falsy(req.customer_name) \/ Falsy(req.phone)))
    => /\ res.success = FALSE
       /\ res.message = "missing_details"
       /\ calls = <<>>
       /\ appointments = before

\* the name of a stored appointment is supplied, the phone is not
C14_Witness ==
    /\ IsCancel(req) /\ Falsy(req.phone)
    /\ \E a \in before : a.customer_name = req.customer_name
    /\ res.message = "missing_details"

Routed(r) == r # NoRequest /\ BusinessId(r) \in ConfigFiles

\* the handlers of section 4.7 that are enabled for the request's business
\* and whose intent set contains its intent, by their place in the list
Able(r) ==
    {i \in 1..Len(PluginOrder) :
        /\ Loads(BusinessConfig(BusinessId(r)), PluginOrder[i])
        /\ CanHandle(PluginOrder[i], r.intent)}

ProcessOf(plugin) ==
    CASE plugin = "AppointmentPlugin" -> "AppointmentPlugin.process"
      [] plugin = "OrderPlugin" -> "OrderPlugin.process"
      [] plugin = "FAQPlugin" -> "FAQPlugin.process"
      [] plugin = "MessagePlugin" -> "MessagePlugin.process"
      [] plugin = "CancellationPlugin" -> "CancellationPlugin.process"

\* the handlers that ran for the request, in order
Ran ==
    SelectSeq(calls, LAMBDA c : c \in {ProcessOf(PluginOrder[i]) : i \in 1..Len(PluginOrder)})

\* the tables now and when the request arrived
TablesNow == Tables(appointments, seq, orders, messages)
TablesBefore == Tables(before, prior.seq, prior.orders, prior.messages)

\* a result without what the after-hours part of the webhook adds to it
Strip(r) ==
    [r EXCEPT !.keys = @ \ {"after_hours", "after_hours_note"},
              !.after_hours = FALSE,
              !.after_hours_note = NoMessage,
              !.appended = ""]

\* C17: route(intent, payload) runs exactly one handler, the first enabled
\* handler whose intent set contains the intent, and returns its result;
\* when no enabled handler's intent set contains the intent (unknown intent,
\* or feature not enabled) it returns the generic success:false result and
\* no table of the store is changed.
C17_RouteRunsFirstHandler ==
    Routed(req) =>
        IF Able(req) = {}
        THEN /\ Ran = <<>>
             /\ Strip(res) = NotRouted
             /\ res.success = FALSE
             /\ TablesNow = TablesBefore
        ELSE LET first == CHOOSE i \in Able(req) : \A j \in Able(req) : i <= j
                 own == PluginProcess(PluginOrder[first],
                                      BusinessConfig(BusinessId(req)),
                                      [data |-> [req EXCEPT !.business_id = BusinessId(req)],
                                       is_after_hours |-> res.after_hours,
                                       after_hours_message |-> res.after_hours_note],
                                      TablesBefore, env)
             IN  /\ Ran = <<ProcessOf(PluginOrder[first])>>
                 /\ Strip(res) = Strip(own.res)
                 /\ TablesNow = own.tables

\* an order for a business that enables orders but neither faq nor
\* messages: the handler after the scheduling one runs, and only it
C17_Witness ==
    /\ Routed(req)
    /\ req.intent = "place_order"
    /\ Ran = <<"OrderPlugin.process">>
    /\ res.success
    /\ orders # prior.orders

\* the weekday names after day0, nearest first
NextOpenWeekday(business_id, day0) ==
    LET k == CHOOSE k \in 1..6 :
                /\ ~ClosedOn(business_id, day0 + k)
                /\ \A j \in 1..(k - 1) : ClosedOn(business_id, day0 + j)
    IN  Title(DayName(day0 + k))

C19_AfterHoursNeverBlocks ==
    req # NoRequest =>
        LET open == VapiWebhook(req, TablesBefore, OpenNow, env)
        IN  /\ res.success = open.res.success
            /\ TablesNow = open.tables
            /\ Strip(res) = Strip(open.res)
            /\ (BusinessId(req) \in Businesses => open.res = Strip(open.res))
            /\ calls = open.calls

\* a booking made on a closed day is stored all the same
C19_Witness ==
    /\ Routed(req) /\ IsBooking(req)
    /\ res.after_hours
    /\ ClosedOn(BusinessId(req), DateOf(now))
    /\ res.success
    /\ appointments # before

\* C20: whenever a booking succeeds while "now" is classified AFTER_HOURS,
\* the confirmation-delay note is appended to the result message, for every
\* intent the scheduling handler accepts (schedule_appointment,
\* book_appointment and make_reservation); the note is never appended to an
\* unsuccessful result or when "now" is OPEN.
C20_ConfirmationNoteOnEveryBooking ==
    (Routed(req) /\ res.status = 200) =>
        /\ (IsBooking(req) /\ res.success /\ res.after_hours)
            => res.appended = ConfirmationNote
        /\ res.appended # "" => res.success /\ res.after_hours

\* an hours string that is present, is not 'closed' and is no pair of
\* %H:%M times
Malformed(hours) == hours.lit = "" /\ ~WellFormed(hours)

\* C21: a malformed hours string fails open and never propagates an error:
\* when today's hours string cannot be parsed the after-hours
\* classification is OPEN with no message, and when the requested weekday's
\* hours string cannot be parsed the booking's business-hours gate treats
\* the request as within hours.
C21_MalformedHoursFailOpen ==
    Routed(req) =>
        /\ res.status = 500 => IsBooking(req) /\ ~Resolves(req)
        /\ (Malformed(HoursOn(BusinessId(req), DateOf(now))) /\ res.status = 200)
            => /\ ~res.after_hours
               /\ res.after_hours_note = NoMessage
               /\ "after_hours" \notin res.keys
        /\ (IsBooking(req) /\ Able(req) # {} /\ Parses(req) /\ Resolves(req)
            /\ Malformed(HoursOn(BusinessId(req), DateOf(RequestedStart(req)))))
            => /\ res.status = 200
               /\ Called("_is_within_business_hours")
               /\ Called("_check_availability")
               /\ res.message # "not_open"

\* a booking for a Friday, made on a Friday, of a business whose Friday
\* hours read "9 AM-5 PM"
C21_Witness ==
    /\ Routed(req) /\ IsBooking(req)
    /\ Malformed(HoursOn(BusinessId(req), DateOf(now)))
    /\ Malformed(HoursOn(BusinessId(req), DateOf(RequestedStart(req))))
    /\ ~res.after_hours
    /\ res.success
    /\ appointments # before

\* the start times the alternative search considers for the request: on each
\* of the 7 calendar days from the requested date whose hours are a pair of
\* times, open, open + 30 min, ... as long as the appointment ends by close
DayGrid(business_id, d, duration) ==
    IF WellFormed(HoursOn(business_id, d))
       /\ OpenOn(business_id, d) + duration <= CloseOn(business_id, d)
    THEN {Combine(d, OpenOn(business_id, d)) + 30 * j :
             j \in 0..((CloseOn(business_id, d) - OpenOn(business_id, d) - duration) \div 30)}
    ELSE {}
CandidateGrid(r) ==
    UNION {DayGrid(r.business_id, d, RequestedDuration(r)) :
              d \in DateOf(RequestedStart(r))..(DateOf(RequestedStart(r)) + 6)}

\* the grid slots that no confirmed appointment of the business overlaps
AvailableGrid(r, rows) ==
    {t \in CandidateGrid(r) :
        \A a \in Confirmed(rows, r.business_id) :
            ~Overlap(StartOf(a), EndOf(a), t, t + RequestedDuration(r))}

\* C22: the alternatives of a conflicting request are exactly the first
\* min(5, n) available slots, earliest first, of the grid over the 7 calendar
\* days from the requested date (closed days contribute nothing, an open day
\* contributes open, open + 30 min, ... up to and including close - duration),
\* n being the number of available grid slots.
C22_AlternativesAreFirstAvailable ==
    (IsBooking(req) /\ res.action = "suggest_alternatives")
    => LET avail == AvailableGrid(req, before)
           alt(i) == FromIso(res.alternatives[i].datetime)
           n == Cardinality(avail)
       IN  /\ Len(res.alternatives) = IF n < 5 THEN n ELSE 5
           /\ \A i \in 1..Len(res.alternatives) : alt(i) \in avail
           /\ \A i, j \in 1..Len(res.alternatives) : i < j => alt(i) < alt(j)
           /\ \A t \in avail :
                 (\A i \in 1..Len(res.alternatives) : alt(i) # t)
                 => \A i \in 1..Len(res.alternatives) : alt(i) < t

\* a search that stopped at 5 with available slots left over, one of its
\* alternatives being the last slot of its day, close - duration
C22_Witness ==
    /\ IsBooking(req) /\ res.action = "suggest_alternatives"
    /\ Len(res.alternatives) = 5
    /\ Cardinality(AvailableGrid(req, before)) > 5
    /\ Cardinality(CandidateGrid(req)) > Cardinality(AvailableGrid(req, before))
    /\ \E i \in 1..5 :
          LET c == FromIso(res.alternatives[i].datetime)
          IN  TimeOf(c) + RequestedDuration(req) = CloseOn(req.business_id, DateOf(c))

\* the offsets 1..7 from day0 (7 is day0's own weekday, a week later) whose
\* weekday is not closed
OpenOffsets(business_id, day0) == {k \in 1..7 : ~ClosedOn(business_id, day0 + k)}

\* what the search from day0 has to say: the nearest weekday that is not
\* closed, or the fallback when there is none
NamesNextOpen(next_open, business_id, day0) ==
    IF OpenOffsets(business_id, day0) = {}
    THEN next_open.text = "during our business hours" /\ next_open.day = ""
    ELSE /\ next_open.text \in {"day at", "day"}
         /\ \E k \in OpenOffsets(business_id, day0) :
               /\ \A j \in OpenOffsets(business_id, day0) : k <= j
               /\ next_open.day = Title(DayName(day0 + k))

\* C23: the next-opening search scans the weekdays after today's in order,
\* wrapping around the week, and returns the first one that is not closed;
\* it returns the fallback only when every day of the week is closed, and it
\* never raises, also for a business that is closed all week.
C23_NextOpenIsFirstOpenDay ==
    Routed(req) =>
        LET b == BusinessId(req)
            today == DateOf(now)
            note == res.after_hours_note
        IN  /\ ClosedOn(b, today)
                => /\ res.status = 500 => IsBooking(req) /\ ~Resolves(req)
                   /\ res.status = 200
                        => /\ note.template = "closed"
                           /\ NamesNextOpen(note.next_open, b, today)
            /\ (res.status = 200 /\ note.template = "after_close")
                => IF ~ClosedOn(b, today + 1)
                   THEN note.next_open.text \in {"tomorrow at", "tomorrow"}
                   ELSE /\ NamesNextOpen(note.next_open, b, today)
                        /\ note.next_open.text # "during our business hours"
            /\ (res.status = 200 /\ note.next_open.text = "during our business hours")
                => \A k \in 0..6 : ClosedOn(b, today + k)

\* a call to a business that is closed all week: answered with the fallback
C23_Witness ==
    /\ Routed(req) /\ res.status = 200
    /\ \A k \in 0..6 : ClosedOn(BusinessId(req), DateOf(now) + k)
    /\ res.after_hours
    /\ res.after_hours_note.template = "closed"
    /\ res.after_hours_note.next_open.text = "during our business hours"

\* the handler a feature of the enablement list stands for
HandlerOf(feature) ==
    CASE feature \in {"appointments", "reservations"} -> "AppointmentPlugin"
      [] feature = "orders" -> "OrderPlugin"
      [] feature = "faq" -> "FAQPlugin"
      [] feature = "messages" -> "MessagePlugin"
      [] feature = "cancellations" -> "CancellationPlugin"
      [] OTHER -> None

\* the first position of the enablement list that stands for the handler
FirstEnabledAt(config, plugin) ==
    CHOOSE i \in 1..Len(config.enabled_features) :
        /\ HandlerOf(config.enabled_features[i]) = plugin
        /\ \A j \in 1..(i - 1) : HandlerOf(config.enabled_features[j]) # plugin

\* C24: the router's ordered list of handlers is in the order in which the
\* features appear in the configuration's enablement list, for every
\* enablement list, and not in a fixed handler priority order.
C24_HandlersInEnablementOrder ==
    Routed(req) =>
        LET config == BusinessConfig(BusinessId(req))
            plugins == LoadPlugins(config)
        IN  \A i, j \in 1..Len(plugins) :
                i < j => FirstEnabledAt(config, plugins[i]) < FirstEnabledAt(config, plugins[j])

\* the stored appointments of the request's own business
OwnRows(r, rows) == {a \in rows : a.business_id = r.business_id}

\* C25: appointments of one business never affect bookings of another: a
\* confirmed appointment stored under business id Y never causes a booking
\* request for business id X # Y to be rejected as a conflict and never
\* removes a slot from the alternatives offered for X.  (Whenever the table
\* holds a row of another business, the result of a booking, alternatives
\* included, and the row it stores are those the same request has on a
\* table holding the rows of its own business alone.)
C25_OtherBusinessNeverInterferes ==
    (IsBooking(req) /\ OwnRows(req, before) # before) =>
        LET alone == Process(req, OwnRows(req, before), prior.seq, env)
        IN  /\ res = alone.res
            /\ appointments \ before = alone.rows \ OwnRows(req, before)
            /\ res.action = "suggest_alternatives" => Overlapped(req, before) # {}
            /\ \A i \in 1..Len(res.alternatives) :
                  \A a \in Confirmed(before, req.business_id) :
                      ~Overlap(StartOf(a), EndOf(a),
                               FromIso(res.alternatives[i].datetime),
                               FromIso(res.alternatives[i].datetime) + RequestedDuration(req))

\* a booking stored for one business over the very interval that another
\* business has booked
C25_Witness ==
    /\ IsBooking(req) /\ res.success
    /\ appointments # before
    /\ \E a \in before :
          /\ a.business_id # req.business_id
          /\ a.status = "confirmed"
          /\ Overlap(StartOf(a), EndOf(a), RequestedStart(req), RequestedEnd(req))

\* the appointment a successful cancellation is about: the matching row with
\* the lowest key
Cancelled(r) == CHOOSE a \in Matching(r) : \A b \in Matching(r) : a.id <= b.id

\* the booking requests that the table `rows` rejects as a conflict, and
\* only because of the appointment a
RejectedOnlyBy(a, rows) ==
    {r \in BookRequests :
        /\ r.business_id = a.business_id
        /\ Parses(r)
        /\ Overlapped(r, rows) = {a}
        /\ Process(r, rows, prior.seq, NoFaults).res.action = "suggest_alternatives"}

\* C26: a cancelled slot becomes bookable again: if a booking request was
\* rejected only because of one conflicting appointment and that appointment
\* is then cancelled successfully, the same booking request submitted
\* afterwards succeeds (and is stored over the interval it asked for).
C26_CancelledSlotBookable ==
    (IsCancel(req) /\ res.success) =>
        \A r \in RejectedOnlyBy(Cancelled(req), before) :
            LET again == Process(r, appointments, seq, NoFaults)
            IN  /\ again.res.success
                /\ again.res.appointment_id = seq + 1
                /\ \E a \in again.rows \ appointments :
                      /\ a.business_id = r.business_id
                      /\ StartOf(a) = RequestedStart(r)
                      /\ EndOf(a) = RequestedEnd(r)

\* a successful cancellation of the one appointment that stood in the way
\* of a request, another appointment staying in the table
C26_Witness ==
    /\ IsCancel(req) /\ res.success
    /\ RejectedOnlyBy(Cancelled(req), before) # {}
    /\ Cancelled(req) \notin appointments
    /\ appointments # {}

\* the worker threads that have returned success:true for a cancellation
CancelledOk == {t \in Threads : pc[t] = "done" /\ IsCancel(treq[t]) /\ tres[t].success}

\* C27: under any interleaving of concurrent cancellation requests, the
\* number of cancellations that return success:true equals the number of
\* appointments removed from the store: two concurrent cancellations never
\* both report success for one and the same appointment.
C27_OneSuccessPerRemoval ==
    \A t, u \in CancelledOk : t # u => trow[t] # trow[u]

====
